---- MODULE Spec2Model ----
(***************************************************************************)
(* The GraphQL library backend of razerpk/graphql-backend: the resolvers   *)
(* of src/library-backend.js (variant "A": bookCount computed on read,     *)
(* awaited writes, a 'BOOK_ADDED' publish/subscribe channel) and of        *)
(* src/unnamed/part_000 (variant "B": bookCount kept by addBook, writes    *)
(* issued without await, no subscription).  The document store (mongoose   *)
(* models Book, Author, User) is a collaborator: collections are sequences *)
(* of documents in insertion order.                                        *)
(***************************************************************************)
EXTENDS Integers, Sequences, FiniteSets, TLC

VARIABLES
    variant,     \* which server file is running: "A" or "B"
    users,       \* User collection, in insertion order
    authors,     \* Author collection, in insertion order
    books,       \* Book collection, in insertion order
    tokens,      \* Token values handed out by login so far
    calls,       \* addBook invocations, in the order they started
    pending,     \* variant B: save() calls issued and not yet landed
    subs,        \* bookAdded subscribers (asyncIterator of 'BOOK_ADDED')
    published    \* payloads given to pubsub.publish, in order

vars == <<variant, users, authors, books, tokens, calls, pending, subs,
          published>>

store == <<users, authors, books>>

----------------------------------------------------------------------------
(* Bounds of the model *)

MaxCalls == 2
MaxUsers == 1
MaxSubs == 1

----------------------------------------------------------------------------
(* Values *)

Null == [null |-> TRUE]
Undefined == [undefined |-> TRUE]
\* A value held in a document field or a query: a string or an ObjectId.
Str(s) == [str |-> s]
Num(n) == [num |-> n]
NaN == [nan |-> TRUE]
ObjectId(n) == [oid |-> n]

Variants == {"A", "B"}

Usernames == {"mluukkai", ""}
FavoriteGenres == {"fantasy"}
Passwords == {"password", "secret"}
AuthorNames == {"Tolkien", ""}
Titles == {"The Hobbit", ""}
PublishedYears == {1937}
BornYears == {1892}
GenreLists == {<<"fantasy">>}
GenreFilters == {"fantasy", "classic"}

SECRET == "config.SECRET"

Range(s) == {s[i] : i \in DOMAIN s}

RECURSIVE SelectIdx(_, _, _)
\* indices i of s, ascending, with ok[i], from index i on
SelectIdx(n, ok, i) ==
    IF i > n THEN <<>>
    ELSE IF ok[i] THEN <<i>> \o SelectIdx(n, ok, i + 1)
    ELSE SelectIdx(n, ok, i + 1)

Max(S) == IF S = {} THEN 0 ELSE CHOOSE m \in S : \A x \in S : x <= m
Min(S) == CHOOSE m \in S : \A x \in S : m <= x

\* The _id values of a collection's documents that exist anywhere: stored,
\* built by a call in flight, or waiting in an issued save()
IdsInUse(coll) ==
    CASE coll = "users" -> {users[i]._id : i \in DOMAIN users}
      [] coll = "authors" ->
            {authors[i]._id : i \in DOMAIN authors}
            \cup {calls[i].authorId : i \in DOMAIN calls}
            \cup {w.doc._id : w \in {x \in pending : x.coll = "authors"}}
      [] coll = "books" ->
            {books[i]._id : i \in DOMAIN books}
            \cup {calls[i].bookId : i \in DOMAIN calls}

\* new Model(...) gives the document an _id no other document of the
\* collection has
NewObjectId(coll) == Max(IdsInUse(coll)) + 1

----------------------------------------------------------------------------
(* The document store, as the resolvers use it *)

\* Schema validation run by save(): the models declare their string fields
\* required, and a required string rejects the empty string.
Required(v) == v /= ""

\* Model.findOne({ field: value }): the first stored document whose field
\* equals the value, or null.  An undefined value is sent as null and
\* equals no string.
FindOne(coll, field, value) ==
    LET hit == {i \in DOMAIN coll : Str(coll[i][field]) = value}
    IN  IF hit = {} THEN Null ELSE coll[Min(hit)]

\* Model.findById(id)
FindById(coll, id) ==
    LET hit == {i \in DOMAIN coll : coll[i]._id = id}
    IN  IF hit = {} THEN Null ELSE coll[CHOOSE i \in hit : TRUE]

\* !x of JavaScript, for the values a document lookup can give
Falsy(x) == x \in {Null, Undefined}
\* !x where x is the array Model.find gives: an array, empty or not, is truthy
FalsyArray(x) == FALSE

----------------------------------------------------------------------------
(* Tokens and the per-request context *)

\* jwt.sign(payload, secret)
sign(payload, secret) == [payload |-> payload, signature |-> secret]

Malformed == [malformed |-> TRUE]

\* jwt.verify(token, secret): the payload, or it throws
verify(token, secret) ==
    IF token = Malformed THEN [threw |-> TRUE]
    ELSE IF token.signature /= secret THEN [threw |-> TRUE]
    ELSE [threw |-> FALSE, payload |-> token.payload]

\* String.prototype.toLowerCase on the scheme word of the header
toLowerCase(s) ==
    CASE s = "Bearer" -> "bearer"
      [] s = "BEARER" -> "bearer"
      [] s = "bearer" -> "bearer"
      [] s = "Basic" -> "basic"

\* A token signed with a guessed secret
Forged == sign([username |-> "mluukkai", id |-> 1], "guess")

\* The Authorization headers a client can send: none, or "<scheme> <value>"
\* where the value is a token login handed out, a forged one, or junk.
Headers ==
    {Null, [scheme |-> "Basic", value |-> Malformed],
     [scheme |-> "Bearer", value |-> Malformed],
     [scheme |-> "bearer", value |-> Forged]}
    \cup {[scheme |-> s, value |-> t] : s \in {"Bearer", "BEARER"}, t \in tokens}

\* ApolloServer's context function
context(auth) ==
    IF auth /= Null /\ toLowerCase(auth.scheme) = "bearer"
    THEN LET decodedToken == verify(auth.value, SECRET)
         IN  IF decodedToken.threw
             THEN [threw |-> TRUE, currentUser |-> Undefined]
             ELSE [threw |-> FALSE,
                   currentUser |-> FindById(users, decodedToken.payload.id)]
    ELSE [threw |-> FALSE, currentUser |-> Undefined]

\* the contexts requests can arrive with
Contexts == {context(auth) : auth \in Headers}

\* a check that takes only null for "no user": a context without
\* currentUser passes
Authenticated_nullOnly(ctx) == ctx.currentUser /= Null

\* if (!currentUser) throw new AuthenticationError('not authenticated')
Authenticated(ctx) == ~Falsy(ctx.currentUser)

----------------------------------------------------------------------------
(* Results of an operation *)

UserInputError(message, args) ==
    [kind |-> "error", error |-> "UserInputError", message |-> message,
     invalidArgs |-> args]
AuthenticationError ==
    [kind |-> "error", error |-> "AuthenticationError",
     message |-> "not authenticated", invalidArgs |-> Null]
\* an exception no resolver code catches (TypeError, ReferenceError,
\* JsonWebTokenError): the request fails with that error
Uncaught(name) ==
    [kind |-> "error", error |-> name, message |-> name, invalidArgs |-> Null]
Value(kind, v) == [kind |-> kind, value |-> v]

----------------------------------------------------------------------------
\* The store a server starts on: an empty one, or the one a single
\* addBook("The Hobbit", 1937, "Tolkien", ["fantasy"]) of the same variant
\* left there in an earlier run.
InitialStores(v) ==
    {[authors |-> <<>>, books |-> <<>>],
     [authors |-> <<[_id |-> 1, name |-> "Tolkien", born |-> Null,
                     bookCount |-> IF v = "A" THEN Null ELSE Num(1)]>>,
      books |-> <<[_id |-> 1, title |-> "The Hobbit", published |-> 1937,
                   genres |-> <<"fantasy">>,
                   author |-> IF v = "A" THEN ObjectId(1)
                              ELSE Str("Tolkien")]>>]}

\* a server that starts on an empty store
InitEmpty ==
    /\ variant \in Variants
    /\ users = <<>>
    /\ authors = <<>>
    /\ books = <<>>
    /\ tokens = {}
    /\ calls = <<>>
    /\ pending = {}
    /\ subs = [s \in 1..MaxSubs |-> [state |-> "idle", queue |-> <<>>,
                                     received |-> <<>>, from |-> 0]]
    /\ published = <<>>

Init ==
    /\ variant \in Variants
    /\ users = <<>>
    /\ \E st \in InitialStores(variant) :
          authors = st.authors /\ books = st.books
    /\ tokens = {}
    /\ calls = <<>>
    /\ pending = {}
    /\ subs = [s \in 1..MaxSubs |-> [state |-> "idle", queue |-> <<>>,
                                     received |-> <<>>, from |-> 0]]
    /\ published = <<>>

\* A request whose Authorization header makes jwt.verify throw: the context
\* function throws, no resolver runs and nothing is written.
contextError(ctx) ==
    /\ ctx.threw
    /\ UNCHANGED vars

\* Mutation.createUser: what it answers and the User collection it leaves
Mutation_createUser(args) ==
    LET user == [_id |-> NewObjectId("users"), username |-> args.username,
                 favoriteGenre |-> args.favoriteGenre]
    IN  IF Required(user.username) /\ Required(user.favoriteGenre)
        THEN [result |-> Value("User", user), users |-> Append(users, user)]
        ELSE [result |-> UserInputError("validation failed", args),
              users |-> users]

\* a createUser request (the resolver takes no context)
createUser(args) ==
    /\ Len(users) < MaxUsers
    /\ users' = Mutation_createUser(args).users
    /\ UNCHANGED <<variant, authors, books, tokens, calls, pending, subs,
                   published>>

\* login without the comparison of the password
Mutation_login_anyPassword(args) ==
    LET user == FindOne(users, "username", Str(args.username))
    IN  IF Falsy(user)
        THEN UserInputError("wrong credentials", Null)
        ELSE LET userForToken == [username |-> user.username, id |-> user._id]
             IN  Value("Token", sign(userForToken, SECRET))

\* Mutation.login: what it answers
Mutation_login(args) ==
    LET user == FindOne(users, "username", Str(args.username))
    IN  IF Falsy(user) \/ args.password /= "password"
        THEN UserInputError("wrong credentials", Null)
        ELSE LET userForToken == [username |-> user.username, id |-> user._id]
             IN  Value("Token", sign(userForToken, SECRET))

\* a login request (the resolver takes no context); the client keeps the
\* token it is given
login(args) ==
    /\ tokens' = IF Mutation_login(args).kind = "Token"
                 THEN tokens \cup {Mutation_login(args).value}
                 ELSE tokens
    /\ UNCHANGED <<variant, users, authors, books, calls, pending, subs,
                   published>>

\* args.f of JavaScript: undefined when the call has no such argument
Arg(args, f) == IF f \in DOMAIN args THEN Str(args[f]) ELSE Undefined

\* Model.find({ field: { $in: values } }): the stored documents, in order,
\* that have the field with one of the values (an array field matches when
\* one of its elements does)
Find(coll, field, values) ==
    LET ok == [i \in DOMAIN coll |->
                 /\ field \in DOMAIN coll[i]
                 /\ IF field = "genres"
                    THEN \E k \in DOMAIN coll[i][field] :
                             Str(coll[i][field][k]) \in values
                    ELSE Str(coll[i][field]) \in values]
        idx == SelectIdx(Len(coll), ok, 1)
    IN  [k \in DOMAIN idx |-> coll[idx[k]]]

\* a string argument used as a condition: absent and "" are falsy
Truthy(v) == v /= Undefined /\ v /= Str("")

----------------------------------------------------------------------------
(* Queries *)

\* .populate('author', { name: 1 }): the referenced Author's _id and name
populate(book) ==
    LET hit == {i \in DOMAIN authors : ObjectId(authors[i]._id) = book.author}
    IN  [book EXCEPT !.author =
            IF hit = {} THEN Null
            ELSE [_id |-> authors[Min(hit)]._id, name |-> authors[Min(hit)].name]]

\* Query.allBooks of src/library-backend.js; args.author and args.genre are
\* Str(..) or Undefined
allBooksA(args) ==
    IF Truthy(args.author) /\ Truthy(args.genre)
    THEN Uncaught("ReferenceError")           \* books is not defined
    ELSE IF Truthy(args.author)
    THEN Uncaught("ReferenceError")           \* books is not defined
    ELSE IF Truthy(args.genre)
    THEN Value("Books", Find(books, "genre", {args.genre}))
    ELSE Value("Books", [i \in DOMAIN books |-> populate(books[i])])

\* Query.allBooks of src/unnamed/part_000
allBooksB(args) ==
    IF Truthy(args.author) /\ Truthy(args.genre)
    THEN Uncaught("ReferenceError")           \* books is not defined
    ELSE IF Truthy(args.author)
    THEN Uncaught("ReferenceError")           \* books is not defined
    ELSE IF Truthy(args.genre)
    THEN Uncaught("TypeError")                \* Book.inventory is undefined
    ELSE Value("Books", books)

allBooks(args) == IF variant = "A" THEN allBooksA(args) ELSE allBooksB(args)

\* allBooks.filter(book => author._id.equals(book.author)).length
countBooksOf(author) ==
    Len(SelectIdx(Len(books),
                  [i \in DOMAIN books |-> books[i].author = ObjectId(author._id)], 1))

\* Query.allAuthors of src/library-backend.js
allAuthorsA ==
    [i \in DOMAIN authors |->
        [name |-> authors[i].name, born |-> authors[i].born,
         id |-> authors[i]._id, bookCount |-> Num(countBooksOf(authors[i]))]]

\* Query.allAuthors of src/unnamed/part_000: the stored documents
allAuthorsB ==
    [i \in DOMAIN authors |->
        [name |-> authors[i].name, born |-> authors[i].born,
         id |-> authors[i]._id, bookCount |-> authors[i].bookCount]]

allAuthors == IF variant = "A" THEN allAuthorsA ELSE allAuthorsB

----------------------------------------------------------------------------
(* Mutation.editAuthor *)

\* Model.findByIdAndUpdate(id, update) and the save() of a changed document:
\* the stored document with that _id gets the given fields
UpdateById(coll, id, fields) ==
    [i \in DOMAIN coll |->
        IF coll[i]._id = id
        THEN [f \in DOMAIN coll[i] |->
                IF f \in DOMAIN fields THEN fields[f] ELSE coll[i][f]]
        ELSE coll[i]]

\* Mutation.editAuthor of src/library-backend.js: what it answers and the
\* Author collection it leaves
Mutation_editAuthorA(args, ctx) ==
    LET found == Find(authors, "name", {Arg(args, "name")})
    IN  IF ~Authenticated(ctx)
        THEN [result |-> AuthenticationError, authors |-> authors]
        ELSE IF FalsyArray(found)
        THEN [result |-> Value("null", Null), authors |-> authors]
        ELSE IF Len(found) = 0
        THEN \* author[0].name throws a TypeError, which the catch wraps
             [result |-> UserInputError("TypeError", args), authors |-> authors]
        ELSE LET author == [name |-> found[1].name, id |-> found[1]._id,
                            born |-> Num(args.setBornTo)]
             IN  \* the resolver returns nothing: the answer is null
                 [result |-> Value("null", Null),
                  authors |-> UpdateById(authors, author.id,
                                [name |-> author.name, born |-> author.born])]

editAuthorA(args, ctx) ==
    /\ variant = "A"
    /\ ~ctx.threw
    /\ authors' = Mutation_editAuthorA(args, ctx).authors
    /\ UNCHANGED <<variant, users, books, tokens, calls, pending, subs,
                   published>>

\* Mutation.editAuthor of src/unnamed/part_000: what it answers and the
\* save() calls it issues
Mutation_editAuthorB(args, ctx) ==
    LET author == FindOne(authors, "name", Arg(args, "author"))
    IN  IF ~Authenticated(ctx)
        THEN [result |-> AuthenticationError, saves |-> {}]
        ELSE IF Falsy(author)
        THEN [result |-> Value("null", Null), saves |-> {}]
        ELSE LET changed == [author EXCEPT !.born = Num(args.setBornTo)]
             IN  [result |-> Value("Author", changed),
                  saves |-> {[op |-> "update", coll |-> "authors",
                              doc |-> changed, path |-> "born", call |-> 0]}]

editAuthorB(args, ctx) ==
    /\ variant = "B"
    /\ ~ctx.threw
    /\ pending' = pending \cup Mutation_editAuthorB(args, ctx).saves
    /\ UNCHANGED <<variant, users, authors, books, tokens, calls, subs,
                   published>>

----------------------------------------------------------------------------
(* The 'BOOK_ADDED' channel (variant A) *)

\* pubsub.publish('BOOK_ADDED', { bookAdded: book }): every iterator that is
\* subscribed gets the payload at the end of its queue; the call returns
\* without waiting for any of them.
publish(payload) ==
    /\ subs' = [s \in DOMAIN subs |->
                  IF subs[s].state = "subscribed"
                  THEN [subs[s] EXCEPT !.queue = Append(@, payload)]
                  ELSE subs[s]]
    /\ published' = Append(published, payload)

\* Subscription.bookAdded.subscribe: pubsub.asyncIterator(['BOOK_ADDED'])
subscribe(s) ==
    /\ variant = "A"
    /\ subs[s].state = "idle"
    /\ subs' = [subs EXCEPT ![s] = [state |-> "subscribed", queue |-> <<>>,
                                    received |-> <<>>, from |-> Len(published)]]
    /\ UNCHANGED <<variant, users, authors, books, tokens, calls, pending,
                   published>>

\* the iterator's next(): the subscriber is sent the oldest queued payload
next(s) ==
    /\ subs[s].state = "subscribed"
    /\ subs[s].queue /= <<>>
    /\ subs' = [subs EXCEPT ![s].received = Append(@, Head(subs[s].queue)),
                            ![s].queue = Tail(@)]
    /\ UNCHANGED <<variant, users, authors, books, tokens, calls, pending,
                   published>>

\* the iterator's return(): the connection closed, the iterator is dropped
unsubscribe(s) ==
    /\ subs[s].state = "subscribed"
    /\ subs' = [subs EXCEPT ![s] = [state |-> "closed", queue |-> <<>>,
                                    received |-> <<>>, from |-> 0]]
    /\ UNCHANGED <<variant, users, authors, books, tokens, calls, pending,
                   published>>

----------------------------------------------------------------------------
(* Mutation.addBook *)

\* Of the document Author.findOne gives, addBook reads _id, name and
\* bookCount.
Snapshot(doc) ==
    IF Falsy(doc) THEN Null
    ELSE [_id |-> doc._id, name |-> doc.name, bookCount |-> doc.bookCount]

\* An addBook invocation: its arguments, where it stands, its local isAuthor
\* (dropped when it returns), the ids of the documents it built, the
\* bookCount it wrote, what it answered, and which of its writes the store
\* has carried out.
Call(args, pc, isAuthor, bookId, result) ==
    [args |-> args, pc |-> pc, isAuthor |-> Snapshot(isAuthor),
     found |-> ~Falsy(isAuthor), bookId |-> bookId, authorId |-> 0,
     wrote |-> Null, result |-> result, authorSaved |-> FALSE,
     bookSaved |-> FALSE]

InFlight == {i \in DOMAIN calls : calls[i].pc /= "done"}

\* Mutation.addBook of src/library-backend.js, to its first await: the
\* check of the caller, then Author.findOne({ name: args.author }).  It
\* either throws or is suspended with what it found.
Mutation_addBookA(args, ctx) ==
    IF ~Authenticated(ctx)
    THEN [result |-> AuthenticationError, started |-> <<>>]
    ELSE [result |-> Null,
          started |-> <<Call(args, "found",
                             FindOne(authors, "name", Arg(args, "author")),
                             0, Null)>>]

addBookA(args, ctx) ==
    /\ variant = "A"
    /\ ~ctx.threw
    /\ Len(calls) < MaxCalls
    /\ calls' = calls \o Mutation_addBookA(args, ctx).started
    /\ UNCHANGED <<variant, users, authors, books, tokens, pending, subs,
                   published>>

\* if (!isAuthor) { isAuthor = await new Author({ name }).save() }
addBookA_saveAuthor(c) ==
    /\ variant = "A"
    /\ calls[c].pc = "found"
    /\ Falsy(calls[c].isAuthor)
    /\ LET author == [_id |-> NewObjectId("authors"), name |-> calls[c].args.author,
                      born |-> Null, bookCount |-> Null]
       IN  IF Required(author.name)
           THEN /\ authors' = Append(authors, author)
                /\ calls' = [calls EXCEPT ![c].isAuthor = Snapshot(author),
                                          ![c].authorId = author._id,
                                          ![c].authorSaved = TRUE,
                                          ![c].pc = "authorSaved"]
           ELSE /\ authors' = authors
                /\ calls' = [calls EXCEPT ![c].pc = "done",
                       ![c].isAuthor = Null,
                       ![c].result = UserInputError("validation failed",
                                                    calls[c].args)]
    /\ UNCHANGED <<variant, users, books, tokens, pending, subs, published>>

\* book = new Book({ ...args, author: isAuthor._id }); await book.save()
addBookA_saveBook(c) ==
    /\ variant = "A"
    /\ \/ calls[c].pc = "found" /\ ~Falsy(calls[c].isAuthor)
       \/ calls[c].pc = "authorSaved"
    /\ LET a == calls[c].args
           book == [_id |-> NewObjectId("books"), title |-> a.title,
                    published |-> a.published, genres |-> a.genres,
                    author |-> ObjectId(calls[c].isAuthor._id)]
       IN  IF Required(book.title)
           THEN /\ books' = Append(books, book)
                /\ calls' = [calls EXCEPT ![c].bookId = book._id,
                                          ![c].authorId = calls[c].isAuthor._id,
                                          ![c].bookSaved = TRUE,
                                          ![c].pc = "bookSaved"]
           ELSE /\ books' = books
                /\ calls' = [calls EXCEPT ![c].pc = "done",
                       ![c].isAuthor = Null,
                       ![c].result = UserInputError("validation failed", a)]
    /\ UNCHANGED <<variant, users, authors, tokens, pending, subs, published>>

\* the last step of addBook without the pubsub.publish
addBookA_publish_silent(c) ==
    /\ variant = "A"
    /\ calls[c].pc = "bookSaved"
    /\ LET a == calls[c].args
           book == [_id |-> calls[c].bookId, title |-> a.title,
                    published |-> a.published, genres |-> a.genres,
                    author |-> [id |-> calls[c].isAuthor._id,
                                name |-> calls[c].isAuthor.name]]
       IN  calls' = [calls EXCEPT ![c].pc = "done",
                                  ![c].isAuthor = Null,
                                  ![c].result = Value("Book", book)]
    /\ UNCHANGED <<variant, users, authors, books, tokens, pending, subs,
                   published>>

\* book.author.name = ..; book.author.id = ..; pubsub.publish(..); return book
addBookA_publish(c) ==
    /\ variant = "A"
    /\ calls[c].pc = "bookSaved"
    /\ LET a == calls[c].args
           book == [_id |-> calls[c].bookId, title |-> a.title,
                    published |-> a.published, genres |-> a.genres,
                    author |-> [id |-> calls[c].isAuthor._id,
                                name |-> calls[c].isAuthor.name]]
       IN  /\ publish(book)
           /\ calls' = [calls EXCEPT ![c].pc = "done",
                                     ![c].isAuthor = Null,
                                     ![c].result = Value("Book", book)]
    /\ UNCHANGED <<variant, users, authors, books, tokens, pending>>

\* isAuthor.bookCount += 1
PlusOne(v) == IF v = Null THEN NaN ELSE Num(v.num + 1)

\* Mutation.addBook of src/unnamed/part_000, to its first await:
\* new Book({ ...args }), the check of the caller, then
\* Author.findOne({ name: args.author })
Mutation_addBookB(args, ctx) ==
    LET bookId == NewObjectId("books")
    IN  IF ~Authenticated(ctx)
        THEN [result |-> AuthenticationError, started |-> <<>>]
        ELSE [result |-> Null,
              started |-> <<Call(args, "found",
                                 FindOne(authors, "name", Arg(args, "author")),
                                 bookId, Null)>>]

addBookB(args, ctx) ==
    /\ variant = "B"
    /\ ~ctx.threw
    /\ Len(calls) < MaxCalls
    /\ calls' = calls \o Mutation_addBookB(args, ctx).started
    /\ UNCHANGED <<variant, users, authors, books, tokens, pending, subs,
                   published>>

\* the rest of the resolver, which awaits nothing: author.save() or
\* isAuthor.save(), then book.save(), are issued and the book is returned
addBookB_save(c) ==
    /\ variant = "B"
    /\ calls[c].pc = "found"
    /\ LET a == calls[c].args
           book == [_id |-> calls[c].bookId, title |-> a.title,
                    published |-> a.published, genres |-> a.genres,
                    author |-> Str(a.author)]
           author == IF Falsy(calls[c].isAuthor)
                     THEN [_id |-> NewObjectId("authors"), name |-> a.author,
                           born |-> Null, bookCount |-> Num(1)]
                     ELSE [calls[c].isAuthor EXCEPT !.bookCount = PlusOne(@)]
           authorSave == [op |-> IF Falsy(calls[c].isAuthor) THEN "insert"
                                 ELSE "update",
                          coll |-> "authors", doc |-> author,
                          path |-> "bookCount", call |-> c]
           bookSave == [op |-> "insert", coll |-> "books", doc |-> book,
                        path |-> "", call |-> c]
       IN  /\ pending' = pending \cup {authorSave, bookSave}
           /\ calls' = [calls EXCEPT ![c].pc = "done",
                                     ![c].isAuthor = Null,
                                     ![c].authorId = author._id,
                                     ![c].wrote = author.bookCount,
                                     ![c].result = Value("Book", book)]
    /\ UNCHANGED <<variant, users, authors, books, tokens, subs, published>>

\* Whether the Book model takes a value as its author: an ObjectId is a
\* reference; a name is no reference, and a model either fails to cast it
\* or keeps it as given.
AuthorFieldOutcomes(v) ==
    IF "oid" \in DOMAIN v THEN {TRUE} ELSE {TRUE, FALSE}

\* a save() that adds one to the stored value instead of setting it
SaveChanged_inc(coll, doc, path) ==
    [i \in DOMAIN coll |->
        IF coll[i]._id = doc._id THEN [coll[i] EXCEPT ![path] = PlusOne(@)]
        ELSE coll[i]]

\* doc.save() of a stored document of which one path was changed: the
\* store sets that path of the document to the value the caller holds
SaveChanged(coll, doc, path) ==
    UpdateById(coll, doc._id, [f \in {path} |-> doc[f]])

Landed(w, ok) ==
    IF w.call = 0 THEN calls
    ELSE IF w.coll = "authors" THEN [calls EXCEPT ![w.call].authorSaved = ok]
    ELSE [calls EXCEPT ![w.call].bookSaved = ok]

\* The store carries out a save() that variant B issued without awaiting
\* it; a rejected save() is reported to nobody.
save(w) ==
    /\ w \in pending
    /\ pending' = pending \ {w}
    /\ \/ /\ w.op = "insert" /\ w.coll = "authors"
          /\ authors' = IF Required(w.doc.name) THEN Append(authors, w.doc)
                        ELSE authors
          /\ calls' = Landed(w, Required(w.doc.name))
          /\ books' = books
       \/ /\ w.op = "update" /\ w.coll = "authors"
          /\ authors' = SaveChanged(authors, w.doc, w.path)
          /\ calls' = Landed(w, TRUE)
          /\ books' = books
       \/ /\ w.op = "insert" /\ w.coll = "books"
          /\ \E cast \in AuthorFieldOutcomes(w.doc.author) :
                LET ok == Required(w.doc.title) /\ cast
                IN  /\ books' = IF ok THEN Append(books, w.doc) ELSE books
                    /\ calls' = Landed(w, ok)
          /\ authors' = authors
    /\ UNCHANGED <<variant, users, tokens, subs, published>>

----------------------------------------------------------------------------
CreateUserArgs == [username : Usernames, favoriteGenre : FavoriteGenres]
LoginArgs == [username : Usernames, password : Passwords]
\* addBook inputs: at most one of title and author name is empty
AddBookArgs ==
    {a \in [title : Titles, published : PublishedYears,
            author : AuthorNames, genres : GenreLists] :
        a.title /= "" \/ a.author /= ""}
EditAuthorArgs == [name : AuthorNames, setBornTo : BornYears]

\* the requests of both variants: mutations, and the store carrying out
\* the writes variant B left behind
Requests ==
    \/ \E ctx \in Contexts : contextError(ctx)
    \/ \E args \in CreateUserArgs : createUser(args)
    \/ \E args \in LoginArgs : login(args)
    \/ \E args \in EditAuthorArgs, ctx \in Contexts : editAuthorA(args, ctx)
    \/ \E args \in EditAuthorArgs, ctx \in Contexts : editAuthorB(args, ctx)
    \/ \E c \in DOMAIN calls : addBookA_saveAuthor(c)
    \/ \E c \in DOMAIN calls : addBookA_saveBook(c)
    \/ \E c \in DOMAIN calls : addBookA_publish(c)
    \/ \E c \in DOMAIN calls : addBookB_save(c)
    \/ \E w \in pending : save(w)

Next ==
    \/ Requests
    \/ \E args \in AddBookArgs, ctx \in Contexts : addBookA(args, ctx)
    \/ \E args \in AddBookArgs, ctx \in Contexts : addBookB(args, ctx)

Spec == Init /\ [][Next]_vars

\* One addBook at a time: a call starts only when every earlier call has
\* answered
NextSeq ==
    \/ Requests
    \/ \E args \in AddBookArgs, ctx \in Contexts :
          InFlight = {} /\ addBookA(args, ctx)
    \/ \E args \in AddBookArgs, ctx \in Contexts :
          InFlight = {} /\ addBookB(args, ctx)

SpecSeq == InitEmpty /\ [][NextSeq]_vars

\* Variant A with its subscribers, from a store that holds one registered
\* user who has logged in: the addBook calls, which lead to a publish, and
\* the bookAdded subscriptions
Registered == [_id |-> 1, username |-> "mluukkai", favoriteGenre |-> "fantasy"]

InitA ==
    /\ variant = "A"
    /\ users = <<Registered>>
    /\ tokens = {sign([username |-> Registered.username, id |-> Registered._id],
                      SECRET)}
    /\ authors = <<>>
    /\ books = <<>>
    /\ calls = <<>>
    /\ pending = {}
    /\ subs = [s \in 1..MaxSubs |-> [state |-> "idle", queue |-> <<>>,
                                     received |-> <<>>, from |-> 0]]
    /\ published = <<>>

NextA ==
    \/ \E args \in AddBookArgs, ctx \in Contexts : addBookA(args, ctx)
    \/ \E c \in DOMAIN calls : addBookA_saveAuthor(c)
    \/ \E c \in DOMAIN calls : addBookA_saveBook(c)
    \/ \E c \in DOMAIN calls : addBookA_publish(c)
    \/ \E s \in DOMAIN subs : subscribe(s)
    \/ \E s \in DOMAIN subs : next(s)
    \/ \E s \in DOMAIN subs : unsubscribe(s)

SpecA == InitA /\ [][NextA]_vars

----------------------------------------------------------------------------
(* The claims *)

\* every addBook has answered and the store has carried out every write
Quiescent == InFlight = {} /\ pending = {}

NoFilter == [author |-> Undefined, genre |-> Undefined]

\* the Book documents whose author reference is the Author with this id
BooksOf(id) == {k \in DOMAIN books : books[k].author = ObjectId(id)}

\* every addBook so far was given a title and an author name
ValidCalls ==
    \A c \in DOMAIN calls : calls[c].args.title /= "" /\ calls[c].args.author /= ""

\* C1: whenever every operation has completed, the bookCount allAuthors
\* returns for an Author is the number of Books whose author reference is
\* that Author's id, under both counting strategies.  (Stated for the runs
\* most favourable to the code: every write carried out, every addBook given
\* a title and an author name.)
C1_BookCountMatchesBooks ==
    (Quiescent /\ ValidCalls) =>
        \A i \in DOMAIN allAuthors :
            allAuthors[i].bookCount = Num(Cardinality(BooksOf(allAuthors[i].id)))

\* C1 restricted to the computed-on-read strategy, where it holds
C1_HoldsComputedOnRead == variant = "A" => C1_BookCountMatchesBooks

Mutation_addBook(args, ctx) ==
    IF variant = "A" THEN Mutation_addBookA(args, ctx)
    ELSE Mutation_addBookB(args, ctx)

Unauthenticated == {ctx \in Contexts : ~ctx.threw /\ Falsy(ctx.currentUser)}

\* what addBook must answer to a context without currentUser
C2_Answer ==
    \A args \in AddBookArgs, ctx \in Unauthenticated :
        /\ Mutation_addBook(args, ctx).result = AuthenticationError
        /\ Mutation_addBook(args, ctx).started = <<>>

\* C2: addBook in a context without currentUser answers AuthenticationError,
\* starts nothing, and leaves the Books, the Authors (bookCount included),
\* the issued writes and the published events as they were.
C2_UnauthenticatedAddBookRejected ==
    /\ []C2_Answer
    /\ [][ \A args \in AddBookArgs, ctx \in Unauthenticated :
              (addBookA(args, ctx) \/ addBookB(args, ctx))
                 => UNCHANGED <<books, authors, pending, published, calls>>
         ]_vars

\* an unauthenticated addBook arrives at a store that holds Books and Authors
\* while another addBook is in flight, and is answered AuthenticationError
C2_Witness ==
    /\ books /= <<>> /\ authors /= <<>> /\ InFlight /= {}
    /\ \E args \in AddBookArgs, ctx \in Unauthenticated :
          Mutation_addBook(args, ctx).result = AuthenticationError

\* editAuthor of the running variant: what it answers, and the Author
\* collection once the writes it issued are carried out
EditAuthorOutcome(args, ctx) ==
    IF variant = "A" THEN Mutation_editAuthorA(args, ctx)
    ELSE LET r == Mutation_editAuthorB(args, ctx)
         IN  [result |-> r.result,
              authors |-> IF r.saves = {} THEN authors
                          ELSE LET w == CHOOSE w \in r.saves : TRUE
                               IN  SaveChanged(authors, w.doc, w.path)]

\* C3: for an authenticated caller, editAuthor with a name no Author has
\* answers null without an error and changes nothing; with a name an Author
\* has it sets that Author's born to setBornTo and changes nothing else.
C3_EditAuthor ==
    \A args \in EditAuthorArgs, ctx \in Contexts :
        (~ctx.threw /\ Authenticated(ctx)) =>
            LET match == {i \in DOMAIN authors : authors[i].name = args.name}
                out == EditAuthorOutcome(args, ctx)
            IN  IF match = {}
                THEN out.result.kind /= "error" /\ out.result.value = Null
                     /\ out.authors = authors
                ELSE out.authors =
                        [authors EXCEPT ![Min(match)].born = Num(args.setBornTo)]

\* C3 for variant B alone
C3_EditAuthorB == variant = "B" => C3_EditAuthor

Answered(c) == calls[c].pc = "done"
Succeeded(c) == Answered(c) /\ calls[c].result.kind = "Book"
WritesOf(c) == {w \in pending : w.call = c}

\* C4: after an authenticated addBook has answered with a Book, allBooks
\* without a filter lists that Book, its author field references an Author
\* that exists, and that Author's name is the author argument.  (Stated for
\* the states most favourable to the code: every write of the call carried
\* out.)
C4_AddedBookListed ==
    \A c \in DOMAIN calls :
        (Succeeded(c) /\ WritesOf(c) = {} /\ ValidCalls) =>
            /\ allBooks(NoFilter).kind = "Books"
            /\ \E k \in DOMAIN allBooks(NoFilter).value :
                  allBooks(NoFilter).value[k]._id = calls[c].bookId
            /\ \E k \in DOMAIN books, i \in DOMAIN authors :
                  /\ books[k]._id = calls[c].bookId
                  /\ books[k].author = ObjectId(authors[i]._id)
                  /\ authors[i].name = calls[c].args.author

\* C4 restricted to variant A, where it holds
C4_HoldsA == variant = "A" => C4_AddedBookListed

\* the addBook calls for this author name that answered with a Book
SucceededFor(name) ==
    {c \in DOMAIN calls : Succeeded(c) /\ calls[c].args.author = name}

\* C5 (under SpecSeq, one addBook at a time from a store without the name):
\* after n >= 1 addBook calls for an author name, allAuthors holds exactly
\* one Author of that name and its bookCount is n.  (Stated for the states
\* most favourable to the code: no call in flight, every write carried out,
\* every addBook given a title and an author name.)
C5_OneAuthorCountsCalls ==
    (Quiescent /\ ValidCalls) =>
        \A name \in AuthorNames \ {""} :
            LET n == Cardinality(SucceededFor(name))
                named == {i \in DOMAIN allAuthors : allAuthors[i].name = name}
            IN  n >= 1 =>
                    /\ Cardinality(named) = 1
                    /\ \A i \in named : allAuthors[i].bookCount = Num(n)

\* C5 restricted to variant A, where it holds
C5_HoldsA == variant = "A" => C5_OneAuthorCountsCalls

\* C6: an addBook in which persisting the Author or the Book fails answers
\* UserInputError with the call's arguments as invalidArgs and never a Book,
\* and the resolver answers only after every write it issued has completed.
C6_PersistenceFailureReported ==
    \A c \in DOMAIN calls :
        Answered(c) =>
            /\ WritesOf(c) = {}
            /\ calls[c].result.kind = "Book" =>
                  calls[c].bookSaved /\ (calls[c].found \/ calls[c].authorSaved)
            /\ calls[c].result.kind /= "Book" =>
                  calls[c].result = UserInputError("validation failed",
                                                   calls[c].args)

\* C6 restricted to variant A, where it holds
C6_HoldsA == variant = "A" => C6_PersistenceFailureReported

\* the header that presents a token as a Bearer token
Bearer(token) == [scheme |-> "Bearer", value |-> token]

\* what login must answer in the current state
C7_Answer ==
    \A args \in LoginArgs :
        LET named == {i \in DOMAIN users : users[i].username = args.username}
            r == Mutation_login(args)
        IN  IF named = {} \/ args.password /= "password"
            THEN r = UserInputError("wrong credentials", Null)
            ELSE /\ r.kind = "Token"
                 /\ ~verify(r.value, SECRET).threw
                 /\ verify(r.value, SECRET).payload.username = args.username
                 /\ \E i \in named :
                       /\ verify(r.value, SECRET).payload.id = users[i]._id
                       /\ ~context(Bearer(r.value)).threw
                       /\ context(Bearer(r.value)).currentUser = users[i]

\* C7: login fails with UserInputError 'wrong credentials' when no User has
\* the username or the password is not the accepted one, and changes no
\* stored record; otherwise its Token decodes to that username and that
\* User's id, and as a Bearer token it makes that User the currentUser.
C7_Login ==
    /\ []C7_Answer
    /\ [][\A args \in LoginArgs : login(args) => UNCHANGED store]_vars

\* a login has handed out a token, and presenting it gives a registered User
C7_Witness ==
    \E t \in tokens :
        /\ Mutation_login([username |-> "mluukkai", password |-> "password"])
              = Value("Token", t)
        /\ \E i \in DOMAIN users : context(Bearer(t)).currentUser = users[i]

Filters(S) == {Str(x) : x \in S} \cup {Undefined}

\* the Books a filter must select: genres contains the genre, and the
\* referenced Author has the name
Selected(args) ==
    {books[k]._id : k \in
        {k \in DOMAIN books :
            /\ args.genre /= Undefined =>
                  \E j \in DOMAIN books[k].genres :
                      Str(books[k].genres[j]) = args.genre
            /\ args.author /= Undefined =>
                  \E i \in DOMAIN authors :
                      /\ books[k].author = ObjectId(authors[i]._id)
                      /\ Str(authors[i].name) = args.author}}

\* C8: on a store that holds Books, allBooks(genre) answers exactly the Books
\* whose genres contain the genre, allBooks(author) exactly those whose
\* Author has that name, and with both filters those satisfying both.
C8_AllBooksFilters ==
    books /= <<>> =>
        \A a \in Filters(AuthorNames \ {""}), g \in Filters(GenreFilters) :
            LET r == allBooks([author |-> a, genre |-> g])
            IN  /\ r.kind = "Books"
                /\ {r.value[k]._id : k \in DOMAIN r.value}
                      = Selected([author |-> a, genre |-> g])

\* C8 for the genre filter alone
C8_GenreOnly ==
    books /= <<>> =>
        \A g \in Filters(GenreFilters) :
            LET r == allBooks([author |-> Undefined, genre |-> g])
            IN  /\ r.kind = "Books"
                /\ {r.value[k]._id : k \in DOMAIN r.value}
                      = Selected([author |-> Undefined, genre |-> g])

\* C9 (variant A): every addBook that answered with a Book published exactly
\* one event, carrying the created Book, and nothing else was published; a
\* subscriber has received or holds queued, in publishing order and once
\* each, exactly the Books published since it subscribed; and the publish
\* step of a call can be taken whatever the subscribers have done.
C9_Channel ==
    /\ \A c \in DOMAIN calls :
          Succeeded(c) =>
              /\ Cardinality({k \in DOMAIN published :
                                published[k] = calls[c].result.value}) = 1
              /\ \E k \in DOMAIN books :
                    /\ books[k]._id = calls[c].result.value._id
                    /\ books[k].title = calls[c].result.value.title
    /\ Len(published) = Cardinality({c \in DOMAIN calls : Succeeded(c)})
    /\ \A s \in DOMAIN subs :
          subs[s].state = "subscribed" =>
              subs[s].received \o subs[s].queue
                 = SubSeq(published, subs[s].from + 1, Len(published))
    /\ \A c \in DOMAIN calls :
          calls[c].pc = "bookSaved" => ENABLED addBookA_publish(c)

\* a subscriber that subscribed after the first publish has been sent the
\* second Book and not the first
C9_Witness ==
    \E s \in DOMAIN subs :
        /\ subs[s].state = "subscribed"
        /\ subs[s].from = 1
        /\ Len(published) = 2
        /\ subs[s].received = <<published[2]>>

\* a publish happens while a subscriber has not consumed an earlier event
C9_WitnessSlowSubscriber ==
    \E s \in DOMAIN subs, c \in DOMAIN calls :
        /\ subs[s].state = "subscribed"
        /\ subs[s].queue /= <<>>
        /\ Succeeded(c)
        /\ calls[c].result.value = published[Len(published)]
        /\ Len(subs[s].queue) = 2

\* the Author records with a name
Named(name) == {i \in DOMAIN authors : authors[i].name = name}

\* the addBook calls whose Author write, for this Author id, the store has
\* carried out
WroteTo(id) ==
    {c \in DOMAIN calls : calls[c].authorId = id /\ calls[c].authorSaved}

\* C10: two addBook calls for one author name that both looked the Author up
\* before either wrote (both found none, both created one) leave two Author
\* records of that name; and in the incremental variant the stored bookCount
\* is always a value one of the calls wrote, never their sum, so that two
\* calls that read the same count raise it by one.
C10_Race ==
    /\ \A c1, c2 \in DOMAIN calls :
          ( /\ c1 /= c2
            /\ calls[c1].args.author = calls[c2].args.author
            /\ ~calls[c1].found /\ ~calls[c2].found
            /\ calls[c1].authorSaved /\ calls[c2].authorSaved )
          => Cardinality(Named(calls[c1].args.author)) >= 2
    /\ variant = "B" =>
          \A i \in DOMAIN authors :
              WroteTo(authors[i]._id) /= {} =>
                  authors[i].bookCount
                     \in {calls[c].wrote : c \in WroteTo(authors[i]._id)}

\* variant B: two calls found the same Author with the same bookCount, both
\* count writes and both Books are stored, and the count rose by one
C10_Witness ==
    /\ variant = "B"
    /\ \E c1, c2 \in DOMAIN calls, i \in DOMAIN authors :
          /\ c1 /= c2
          /\ calls[c1].found /\ calls[c2].found
          /\ {c1, c2} \subseteq WroteTo(authors[i]._id)
          /\ calls[c1].bookSaved /\ calls[c2].bookSaved
          /\ calls[c1].wrote = Num(2) /\ calls[c2].wrote = Num(2)
          /\ authors[i].bookCount = Num(2)
          /\ Len(books) = 3

\* two calls for a name no Author had left two Author records of that name
C10_WitnessDuplicate ==
    \E c1, c2 \in DOMAIN calls :
        /\ c1 /= c2
        /\ ~calls[c1].found /\ ~calls[c2].found
        /\ calls[c1].authorSaved /\ calls[c2].authorSaved
        /\ calls[c1].args.author = calls[c2].args.author
        /\ Cardinality(Named(calls[c1].args.author)) = 2

====
